---- MODULE Spec2Model ----
(***************************************************************************)
(* Model of src/main.py: the per-row derivation engine                     *)
(* (recalculate_dataframe), the timeline seeder (build_initial_timeline)   *)
(* and the module-level "recalculate, sort, save" path.                    *)
(*                                                                         *)
(* Representation.                                                         *)
(*  - A DataFrame is a sequence of rows (df) plus its index labels (index).*)
(*  - A Start/End cell is a record describing the text in the cell:        *)
(*    fmt "date" is YYYY-MM-DD, fmt "datetime" is YYYY-MM-DDTHH:MM, fmt    *)
(*    "text" is any other text, fmt "nan" is a missing cell (float NaN).   *)
(*    day is the day ordinal, min the minute of the day, pad says the text *)
(*    carries a leading blank.                                             *)
(*  - A numeric cell is a record: num says the cell parses as a number,    *)
(*    v is its value in units of 1/200 (half a cent), so that a value      *)
(*    with three decimals such as 14.125 is an integer (2825).  All rates  *)
(*    and distances used are multiples of 1/8, which binary floating point *)
(*    holds exactly, so float products equal the integer products here.    *)
(*  - A Description cell is a record: kind "nan" is a missing cell, kind   *)
(*    "text" is text typed by the user (field text), every other kind is   *)
(*    one of the f-string templates of the code with its arguments.        *)
(***************************************************************************)
EXTENDS Integers, Sequences, FiniteSets, TLC

VARIABLES
    df,         \* the DataFrame being worked on: sequence of rows
    index,      \* df.index: the label of each row of df
    input,      \* the DataFrame as it was handed to the first operation
    before,     \* df as it was when the latest operation started
    before_index, \* index as it was when the latest operation started
    stage,      \* "start" | "failed" | "seeded" | "loaded" | "recalculated" |
                \* "saved" | "raised"
    passes,     \* number of derivation passes started so far
    raised_at,  \* 0, or the position of the row whose derivation raised
    rates,      \* [inland_rate, foreign_rate, km_rate], units of 1/200
    range,      \* [from_date, to_date]: the configured date texts
    origin      \* "frame": df was handed in; "script": df is built by the seeder

vars == <<df, index, input, before, before_index, stage, passes, raised_at, rates, range, origin>>

---------------------------------------------------------------------------
(* Bounds of the model *)
MaxRows == 2
MaxPasses == 2
MaxDay == 4

---------------------------------------------------------------------------
(* Cells *)

Num(v) == [num |-> TRUE, v |-> v]
NotNum == [num |-> FALSE, v |-> 0]

DateCell(day) == [fmt |-> "date", day |-> day, min |-> 0, pad |-> FALSE]
DateTimeCell(day, m) == [fmt |-> "datetime", day |-> day, min |-> m, pad |-> FALSE]
Padded(c) == [c EXCEPT !.pad = TRUE]
TextCell == [fmt |-> "text", day |-> 0, min |-> 0, pad |-> FALSE]
NanCell == [fmt |-> "nan", day |-> 0, min |-> 0, pad |-> FALSE]
NoCell == [fmt |-> "none", day |-> 0, min |-> 0, pad |-> FALSE]

UserText(s) == [kind |-> "text", text |-> s, start |-> NoCell, end |-> NoCell, km |-> 0]
NanText == [kind |-> "nan", text |-> "", start |-> NoCell, end |-> NoCell, km |-> 0]

COLUMNS == <<"Start", "End", "Event_Type", "Work_Mode", "Remote_Type",
             "Per_Diem_Rate", "Km_Rate", "Distance_km", "Per_Diem_Total",
             "Travel_Cost", "Description">>

NumericColumns == {"Per_Diem_Rate", "Km_Rate", "Distance_km", "Per_Diem_Total", "Travel_Cost"}

---------------------------------------------------------------------------
(* String helpers: str.lower, str.strip and str.title on the texts used   *)

lower(s) ==
    CASE s = "Work " -> "work "
      [] s = "Remote " -> "remote "
      [] s = "Foreign" -> "foreign"
      [] OTHER -> s

strip(s) ==
    CASE s = "work " -> "work"
      [] s = "remote " -> "remote"
      [] s = "  " -> ""
      [] OTHER -> s

title(s) ==
    CASE s = "onsite" -> "Onsite"
      [] s = "free" -> "Free"
      [] s = "remote" -> "Remote"
      [] OTHER -> s

(* row["Description"].strip(): raises AttributeError on a non-text cell *)
is_text(d) == d.kind # "nan"
blank(d) == d.kind = "text" /\ strip(d.text) = ""

---------------------------------------------------------------------------
(* parse_datetime / format_datetime.  A datetime is a number of minutes.  *)

MinutesPerDay == 24 * 60

parse_datetime(c) ==
    CASE c.fmt = "date" -> [ok |-> TRUE, v |-> c.day * MinutesPerDay]
      [] c.fmt = "datetime" -> [ok |-> TRUE, v |-> c.day * MinutesPerDay + c.min]
      [] OTHER -> [ok |-> FALSE, v |-> 0]

format_datetime(dt) == DateTimeCell(dt \div MinutesPerDay, dt % MinutesPerDay)

(* strptime(s, DATE_ONLY_FORMAT): only a bare, unpadded date parses *)
strptime_date(c) ==
    IF c.fmt = "date" /\ ~c.pad
    THEN [ok |-> TRUE, v |-> c.day * MinutesPerDay]
    ELSE [ok |-> FALSE, v |-> 0]

date(dt) == dt \div MinutesPerDay

---------------------------------------------------------------------------
(* round(x, 2) of the exact value n / den, the result in units of 1/200:  *)
(* correctly rounded to a whole number of cents, ties to the even cent.   *)

round2(n, den) ==
    LET c == (n * 100) \div den
        r == (n * 100) % den
        cents == IF 2 * r < den THEN c
                 ELSE IF 2 * r > den THEN c + 1
                 ELSE IF c % 2 = 0 THEN c ELSE c + 1
    IN 2 * cents

(* pd.to_numeric(col, errors="coerce").fillna(0.0) on one cell *)
to_numeric(c) == IF c.num THEN c ELSE Num(0)

coerce_row(row) ==
    [row EXCEPT !.Per_Diem_Rate = to_numeric(@),
                !.Km_Rate = to_numeric(@),
                !.Distance_km = to_numeric(@),
                !.Per_Diem_Total = to_numeric(@),
                !.Travel_Cost = to_numeric(@)]

---------------------------------------------------------------------------
(* The branches of the loop body of recalculate_dataframe.  Each returns   *)
(* [row, exc]: the row as the branch leaves it in df, and the exception    *)
(* it raised ("none" when it ran to its end).  The writes a branch made    *)
(* before raising stay in df.                                              *)

Returned(row) == [row |-> row, exc |-> "none"]
Raised(row) == [row |-> row, exc |-> "AttributeError"]

(* days without the floor at 1 *)
days_between_unfloored(start_dt, end_dt) ==
    (date(end_dt) - date(start_dt)) + 1

days_between(start_dt, end_dt) ==
    LET days == (date(end_dt) - date(start_dt)) + 1
    IN IF days < 1 THEN 1 ELSE days

per_diem_rate(rtype, r) ==
    CASE rtype = "domestic" -> r.inland_rate
      [] rtype = "foreign" -> r.foreign_rate
      [] OTHER -> 0

(* the remote branch without the write Travel_Cost = 0.0 *)
work_remote_keeps_cost(row, rtype, days, r) ==
    LET rate == per_diem_rate(rtype, r)
        r1 == [row EXCEPT !.Per_Diem_Rate = Num(rate),
                          !.Per_Diem_Total = Num(round2(days * rate, 200)),
                          !.Km_Rate = Num(0),
                          !.Distance_km = Num(0)]
    IN IF ~is_text(row.Description) THEN Raised(r1)
       ELSE IF blank(row.Description)
       THEN Returned([r1 EXCEPT !.Description =
                [kind |-> "Remote work", text |-> rtype,
                 start |-> row.Start, end |-> row.End, km |-> 0]])
       ELSE Returned(r1)

(* Event_Type work, Work_Mode remote *)
work_remote(row, rtype, days, r) ==
    LET rate == per_diem_rate(rtype, r)
        r1 == [row EXCEPT !.Per_Diem_Rate = Num(rate),
                          !.Per_Diem_Total = Num(round2(days * rate, 200)),
                          !.Km_Rate = Num(0),
                          !.Distance_km = Num(0),
                          !.Travel_Cost = Num(0)]
    IN IF ~is_text(row.Description) THEN Raised(r1)
       ELSE IF blank(row.Description)
       THEN Returned([r1 EXCEPT !.Description =
                [kind |-> "Remote work", text |-> rtype,
                 start |-> row.Start, end |-> row.End, km |-> 0]])
       ELSE Returned(r1)

(* Event_Type work, any other Work_Mode *)
work_other(row, wmode) ==
    LET r1 == [row EXCEPT !.Per_Diem_Rate = Num(0),
                          !.Per_Diem_Total = Num(0),
                          !.Km_Rate = Num(0),
                          !.Distance_km = Num(0),
                          !.Travel_Cost = Num(0)]
        r2 == IF blank(row.Description)
              THEN [r1 EXCEPT !.Description =
                      [kind |-> "work", text |-> title(wmode),
                       start |-> row.Start, end |-> row.End, km |-> 0]]
              ELSE r1
    IN IF ~is_text(row.Description) THEN Raised(r1)
       ELSE Returned([r2 EXCEPT !.Remote_Type = "n/a"])

(* the travel branch costing the distance at the row's own Km_Rate, as it *)
(* was before the write Km_Rate = km_rate                                 *)
travel_stale_rate(row, wmode, rtype, r) ==
    LET d0 == row.Distance_km.v
        dist == IF d0 < 0 THEN 0 ELSE d0
        r1 == [row EXCEPT !.Km_Rate = Num(r.km_rate),
                          !.Travel_Cost = Num(round2(dist * row.Km_Rate.v, 200 * 200)),
                          !.Per_Diem_Rate = Num(0),
                          !.Per_Diem_Total = Num(0)]
        r2 == IF blank(row.Description)
              THEN [r1 EXCEPT !.Description =
                      [kind |-> "Travel", text |-> "",
                       start |-> row.Start, end |-> NoCell, km |-> dist]]
              ELSE r1
        r3 == IF wmode \notin {"onsite", "remote"}
              THEN [r2 EXCEPT !.Work_Mode = "remote"] ELSE r2
        r4 == IF rtype = "" THEN [r3 EXCEPT !.Remote_Type = "n/a"] ELSE r3
    IN IF ~is_text(row.Description) THEN Raised(r1) ELSE Returned(r4)

(* Event_Type travel *)
travel(row, wmode, rtype, r) ==
    LET d0 == row.Distance_km.v
        dist == IF d0 < 0 THEN 0 ELSE d0
        r1 == [row EXCEPT !.Km_Rate = Num(r.km_rate),
                          !.Travel_Cost = Num(round2(dist * r.km_rate, 200 * 200)),
                          !.Per_Diem_Rate = Num(0),
                          !.Per_Diem_Total = Num(0)]
        r2 == IF blank(row.Description)
              THEN [r1 EXCEPT !.Description =
                      [kind |-> "Travel", text |-> "",
                       start |-> row.Start, end |-> NoCell, km |-> dist]]
              ELSE r1
        r3 == IF wmode \notin {"onsite", "remote"}
              THEN [r2 EXCEPT !.Work_Mode = "remote"] ELSE r2
        r4 == IF rtype = "" THEN [r3 EXCEPT !.Remote_Type = "n/a"] ELSE r3
    IN IF ~is_text(row.Description) THEN Raised(r1) ELSE Returned(r4)

FreeFrom(row) ==
    [kind |-> "Free", text |-> "", start |-> row.Start, end |-> row.End, km |-> 0]

(* Event_Type free *)
free(row) ==
    LET r1 == [row EXCEPT !.Work_Mode = "free",
                          !.Remote_Type = "n/a",
                          !.Per_Diem_Rate = Num(0),
                          !.Per_Diem_Total = Num(0),
                          !.Km_Rate = Num(0),
                          !.Distance_km = Num(0),
                          !.Travel_Cost = Num(0)]
    IN IF ~is_text(row.Description) THEN Raised(r1)
       ELSE IF blank(row.Description)
       THEN Returned([r1 EXCEPT !.Description = FreeFrom(row)])
       ELSE Returned(r1)

(* any other Event_Type *)
other(row) ==
    Returned([row EXCEPT !.Event_Type = "free",
                         !.Work_Mode = "free",
                         !.Remote_Type = "n/a",
                         !.Per_Diem_Rate = Num(0),
                         !.Per_Diem_Total = Num(0),
                         !.Km_Rate = Num(0),
                         !.Distance_km = Num(0),
                         !.Travel_Cost = Num(0),
                         !.Description = FreeFrom(row)])

normalize(s) == strip(lower(s))

parsable(row) == parse_datetime(row.Start).ok /\ parse_datetime(row.End).ok

(* One iteration of the loop over df.iterrows() *)
recalculate_row(row, r) ==
    LET etype == normalize(row.Event_Type)
        wmode == normalize(row.Work_Mode)
        rtype == normalize(row.Remote_Type)
        start_dt == parse_datetime(row.Start)
        end_dt == parse_datetime(row.End)
    IN IF ~start_dt.ok \/ ~end_dt.ok THEN Returned(row)
       ELSE LET days == days_between(start_dt.v, end_dt.v)
            IN CASE etype = "work" /\ wmode = "remote" -> work_remote(row, rtype, days, r)
                 [] etype = "work" /\ wmode # "remote" -> work_other(row, wmode)
                 [] etype = "travel" -> travel(row, wmode, rtype, r)
                 [] etype = "free" -> free(row)
                 [] OTHER -> other(row)

(* The loop: rows pos..Len(frame) are derived in order; an exception ends  *)
(* the pass and leaves the later rows as they are.                         *)
RECURSIVE derive_from(_, _, _)
derive_from(frame, pos, r) ==
    IF pos > Len(frame) THEN [df |-> frame, raised_at |-> 0]
    ELSE LET res == recalculate_row(frame[pos], r)
             f2 == [frame EXCEPT ![pos] = res.row]
         IN IF res.exc # "none" THEN [df |-> f2, raised_at |-> pos]
            ELSE derive_from(f2, pos + 1, r)

coerce_frame(frame) == [i \in 1..Len(frame) |-> coerce_row(frame[i])]

recalculate_dataframe(frame, r) == derive_from(coerce_frame(frame), 1, r)

---------------------------------------------------------------------------
(* The module-level sort: SortKey = Event_Type.map({work: 0, free: 0,      *)
(* travel: 1}), then sort_values(by=["Start", "SortKey"]).  Start is a     *)
(* column of texts and is compared as text; a missing value (NaN) in       *)
(* either key is placed last.  The sort on several keys is stable.         *)

(* Text order of the Start cells: a leading blank is below every digit,   *)
(* digits are below letters, a bare date is a prefix of the date-times of  *)
(* its day, and NaN goes last.                                             *)
start_key(c) ==
    LET class == CASE c.fmt = "nan" -> 3
                   [] c.fmt = "text" -> 2
                   [] c.pad -> 0
                   [] OTHER -> 1
        form == IF c.fmt = "datetime" THEN 1 ELSE 0
    IN <<class, c.day, form, c.min>>

sort_key(row) ==
    CASE row.Event_Type \in {"work", "free"} -> 0
      [] row.Event_Type = "travel" -> 1
      [] OTHER -> 2

row_key(row) == start_key(row.Start) \o <<sort_key(row)>>

key_less(a, b) ==
    \E k \in 1..Len(a) : a[k] < b[k] /\ \A j \in 1..(k - 1) : a[j] = b[j]

(* position (1-based) that row i of frame takes in the sorted frame *)
sorted_position(frame, i) ==
    1 + Cardinality({j \in 1..Len(frame) :
            \/ key_less(row_key(frame[j]), row_key(frame[i]))
            \/ (row_key(frame[j]) = row_key(frame[i]) /\ j < i)})

(* the order of the rows after the sort: order[p] is the old position *)
sort_order(frame) ==
    [p \in 1..Len(frame) |->
        CHOOSE i \in 1..Len(frame) : sorted_position(frame, i) = p]

sort_values(frame, labels) ==
    LET order == sort_order(frame)
    IN [df |-> [p \in 1..Len(frame) |-> frame[order[p]]],
        index |-> [p \in 1..Len(frame) |-> labels[order[p]]]]

RangeIndex(n) == [i \in 1..n |-> i - 1]

---------------------------------------------------------------------------
(* build_initial_timeline *)

(* a placeholder row whose description is left empty *)
seed_row_blank(cur) ==
    [Start |-> format_datetime(cur),
     End |-> format_datetime(cur + (23 * 60 + 59)),
     Event_Type |-> "free",
     Work_Mode |-> "free",
     Remote_Type |-> "n/a",
     Per_Diem_Rate |-> Num(0),
     Km_Rate |-> Num(0),
     Distance_km |-> Num(0),
     Per_Diem_Total |-> Num(0),
     Travel_Cost |-> Num(0),
     Description |-> UserText("")]

seed_row(cur) ==
    LET start == format_datetime(cur)
        end == format_datetime(cur + (23 * 60 + 59))
    IN [Start |-> start,
        End |-> end,
        Event_Type |-> "free",
        Work_Mode |-> "free",
        Remote_Type |-> "n/a",
        Per_Diem_Rate |-> Num(0),
        Km_Rate |-> Num(0),
        Distance_km |-> Num(0),
        Per_Diem_Total |-> Num(0),
        Travel_Cost |-> Num(0),
        Description |-> [kind |-> "Free", text |-> "",
                         start |-> start, end |-> end, km |-> 0]]

(* the loop with the condition cur < end_date *)
RECURSIVE timeline_rows_exclusive(_, _)
timeline_rows_exclusive(cur, end_date) ==
    IF cur < end_date
    THEN <<seed_row(cur)>> \o timeline_rows_exclusive(cur + MinutesPerDay, end_date)
    ELSE <<>>

(* the while loop: cur runs from start_date in steps of one day *)
RECURSIVE timeline_rows(_, _)
timeline_rows(cur, end_date) ==
    IF cur <= end_date
    THEN <<seed_row(cur)>> \o timeline_rows(cur + MinutesPerDay, end_date)
    ELSE <<>>

build_initial_timeline(from_date, to_date) ==
    LET start_date == strptime_date(from_date)
        end_date == strptime_date(to_date)
    IN IF ~start_date.ok \/ ~end_date.ok
       THEN [exc |-> "ValueError", df |-> <<>>]
       ELSE [exc |-> "none", df |-> timeline_rows(start_date.v, end_date.v)]

---------------------------------------------------------------------------
(* Inputs.  Rates are >= 0 (the number inputs have min_value=0.0):         *)
(* 14.125 / 28.0 / 0.25 and 14.0 / 28.5 / 0.125, in units of 1/200.        *)

RateInputs ==
    { [inland_rate |-> 2825, foreign_rate |-> 5600, km_rate |-> 50],
      [inland_rate |-> 2800, foreign_rate |-> 5700, km_rate |-> 25] }

StartInputs == {DateCell(1), Padded(DateTimeCell(1, 8 * 60)), DateCell(2), TextCell}
EndInputs == {DateCell(1), DateTimeCell(3, 17 * 60), TextCell}
EventTypeInputs == {"work", "Work ", "travel", "free", "vacation"}
WorkModeInputs == {"onsite", "remote", "Remote ", "free"}
RemoteTypeInputs == {"domestic", "Foreign", "n/a", ""}
DescriptionInputs == {UserText(""), UserText("  "), UserText("note"), NanText}
(* the read-only rate columns of the grid: both unparsable, or 5.0 / 0.3 *)
RateCellInputs == {<<NotNum, NotNum>>, <<Num(1000), Num(60)>>}
DistanceInputs == {Num(-3100), Num(3100), NotNum}
TotalInputs == {NotNum, Num(1400)}
CostInputs == {NotNum, Num(900)}

(* one row of an arbitrary DataFrame handed to recalculate_dataframe *)
RowInputs ==
    { [Start |-> s, End |-> e, Event_Type |-> et, Work_Mode |-> wm,
       Remote_Type |-> rt, Per_Diem_Rate |-> rc[1], Km_Rate |-> rc[2],
       Distance_km |-> d, Per_Diem_Total |-> t, Travel_Cost |-> c,
       Description |-> ds] :
      s \in StartInputs, e \in EndInputs, et \in EventTypeInputs,
      wm \in WorkModeInputs, rt \in RemoteTypeInputs, rc \in RateCellInputs,
      d \in DistanceInputs, t \in TotalInputs, c \in CostInputs,
      ds \in DescriptionInputs }

(* rows of a batch: dates that parse or not, the event types, a missing    *)
(* or a typed description; the other cells fixed                          *)
BatchRowInputs ==
    { [Start |-> s, End |-> DateCell(2), Event_Type |-> et, Work_Mode |-> "remote",
       Remote_Type |-> "domestic", Per_Diem_Rate |-> NotNum, Km_Rate |-> Num(60),
       Distance_km |-> Num(3100), Per_Diem_Total |-> Num(1400),
       Travel_Cost |-> Num(900), Description |-> ds] :
      s \in {DateCell(1), DateTimeCell(1, 8 * 60), DateCell(2), NanCell},
      et \in {"work", "Work ", "travel", "free"},
      ds \in {UserText("note"), NanText} }

Frames(rows, n) == UNION { [1..k -> rows] : k \in 0..n }

(* the texts of the From Date / To Date inputs *)
DateInputs == {DateCell(d) : d \in 1..MaxDay} \cup {DateTimeCell(1, 0), TextCell}

NoRange == [from_date |-> DateCell(1), to_date |-> DateCell(1)]

---------------------------------------------------------------------------
(* Initial states *)

Loaded(frame) ==
    /\ df = frame
    /\ index = RangeIndex(Len(frame))
    /\ input = frame
    /\ before = frame
    /\ before_index = RangeIndex(Len(frame))
    /\ stage = "loaded"
    /\ passes = 0
    /\ raised_at = 0
    /\ range = NoRange
    /\ origin = "frame"

(* the script before the table is built *)
ScriptStart ==
    /\ range \in [from_date : DateInputs, to_date : DateInputs]
    /\ df = <<>>
    /\ index = <<>>
    /\ input = <<>>
    /\ before = <<>>
    /\ before_index = <<>>
    /\ stage = "start"
    /\ passes = 0
    /\ raised_at = 0
    /\ origin = "script"

(* Either a DataFrame is handed in (from the CSV file or the grid): one    *)
(* arbitrary row, or up to MaxRows rows of a batch; or the script starts   *)
(* with no table and seeds one.                                            *)
Init ==
    /\ rates \in RateInputs
    /\ \/ \E row \in RowInputs : Loaded(<<row>>)
       \/ \E frame \in Frames(BatchRowInputs, MaxRows) : Loaded(frame)
       \/ ScriptStart

---------------------------------------------------------------------------
(* Operations *)

(* recalculate_dataframe(df, ...) called on the frame, which it changes    *)
(* in place; it may be called again on its own result.                     *)
Recalculate ==
    /\ stage \in {"loaded", "seeded", "recalculated"}
    /\ passes < MaxPasses
    /\ LET res == recalculate_dataframe(df, rates)
       IN /\ df' = res.df
          /\ raised_at' = res.raised_at
          /\ stage' = IF res.raised_at = 0 THEN "recalculated" ELSE "raised"
    /\ before' = df
    /\ before_index' = index
    /\ passes' = passes + 1
    /\ UNCHANGED <<index, input, rates, range, origin>>

(* the module-level path: recalculate, add SortKey, sort, drop SortKey.    *)
(* An exception in the derivation ends the script before the sort.         *)
RecalculateAndSave ==
    /\ stage \in {"loaded", "seeded"}
    /\ passes < MaxPasses
    /\ LET res == recalculate_dataframe(df, rates)
           sorted == sort_values(res.df, index)
       IN /\ raised_at' = res.raised_at
          /\ IF res.raised_at = 0
             THEN df' = sorted.df /\ index' = sorted.index /\ stage' = "saved"
             ELSE df' = res.df /\ index' = index /\ stage' = "raised"
    /\ before' = df
    /\ before_index' = index
    /\ passes' = passes + 1
    /\ UNCHANGED <<input, rates, range, origin>>

(* build_initial_timeline(from_date, to_date) *)
BuildInitialTimeline ==
    /\ stage = "start"
    /\ LET res == build_initial_timeline(range.from_date, range.to_date)
       IN /\ df' = res.df
          /\ input' = res.df
          /\ index' = RangeIndex(Len(res.df))
          /\ stage' = IF res.exc = "none" THEN "seeded" ELSE "failed"
    /\ before' = df
    /\ before_index' = index
    /\ UNCHANGED <<passes, raised_at, rates, range, origin>>

Next == BuildInitialTimeline \/ Recalculate \/ RecalculateAndSave

Spec == Init /\ [][Next]_vars

---------------------------------------------------------------------------
(* Vocabulary of the properties *)

Rows == 1..Len(df)

(* the rows the latest derivation pass went through: all of them when it  *)
(* returned, those up to the raising row when it raised                   *)
Processed == IF raised_at = 0 THEN Rows ELSE 1..raised_at

(* a derivation pass has run and df still has the order it had before it *)
AfterPass == passes >= 1 /\ stage \in {"recalculated", "raised"}

(* a derivation pass has returned (and the rows may have been sorted) *)
PassReturned == passes >= 1 /\ stage \in {"recalculated", "saved"}

EventType(row) == normalize(row.Event_Type)
WorkMode(row) == normalize(row.Work_Mode)
RemoteType(row) == normalize(row.Remote_Type)

IsDate(c) == c.fmt \in {"date", "datetime"}
ValidDates(row) == IsDate(row.Start) /\ IsDate(row.End)

NonBlankText(d) == d.kind # "nan" /\ ~(d.kind = "text" /\ d.text \in {"", "  "})

Exclusive(row) ==
    /\ row.Per_Diem_Total.v > 0 => row.Travel_Cost.v = 0
    /\ row.Travel_Cost.v > 0 => row.Per_Diem_Total.v = 0

(* calendar days from Start to End, both ends counted, at least 1 *)
CalendarDays(row) ==
    LET n == (row.End.day - row.Start.day) + 1 IN IF n < 1 THEN 1 ELSE n

ExpectedRate(row) ==
    IF RemoteType(row) = "domestic" THEN rates.inland_rate
    ELSE IF RemoteType(row) = "foreign" THEN rates.foreign_rate
    ELSE 0

Abs(x) == IF x < 0 THEN -x ELSE x

(* t is x rounded to a whole number of cents (2 units), ties to even *)
RoundedToCents(t, x) ==
    /\ t % 2 = 0
    /\ Abs(t - x) <= 1
    /\ Abs(t - x) = 1 => (t \div 2) % 2 = 0

---------------------------------------------------------------------------
(* C1: derivation is idempotent: when recalculate_dataframe is applied to *)
(* its own result with the same rates, every row with parsable Start and  *)
(* End comes out exactly as it went in, Description included.             *)
C1_Idempotent ==
    (stage = "recalculated" /\ passes >= 2) =>
        \A i \in Rows : ValidDates(before[i]) => df[i] = before[i]

(* a travel row with a negative distance and a blank description has been *)
(* derived twice, and the first pass changed it                            *)
C1_Witness ==
    /\ stage = "recalculated" /\ passes = 2 /\ origin = "frame"
    /\ \E i \in Rows :
        /\ ValidDates(input[i])
        /\ EventType(input[i]) = "travel"
        /\ input[i].Distance_km = Num(-3100)
        /\ input[i].Description = UserText("  ")
        /\ df[i] # coerce_row(input[i])

---------------------------------------------------------------------------
(* C2 as claimed: after a derivation pass, in every row of the collection *)
(* Per_Diem_Total > 0 implies Travel_Cost = 0 and Travel_Cost > 0 implies  *)
(* Per_Diem_Total = 0.                                                     *)
C2_ExclusiveInEveryRow ==
    PassReturned => \A i \in Rows : Exclusive(df[i])

(* C2 amended: the same, for every row with parsable Start and End that   *)
(* the pass has gone through.                                              *)
C2_ExclusiveInDerivedRows ==
    passes >= 1 => \A i \in Processed : ValidDates(df[i]) => Exclusive(df[i])

(* a remote work row that came in with a travel cost has a per-diem total *)
C2_Witness ==
    /\ AfterPass /\ passes = 1
    /\ \E i \in Processed :
        /\ ValidDates(df[i])
        /\ before[i].Travel_Cost.num /\ before[i].Travel_Cost.v > 0
        /\ df[i].Per_Diem_Total.v > 0

---------------------------------------------------------------------------
(* C3: a Description that is not blank before a derivation pass is the    *)
(* same after it, in every Event_Type branch.                              *)
C3_UserTextKept ==
    AfterPass =>
        \A i \in Rows :
            NonBlankText(before[i].Description) =>
                df[i].Description = before[i].Description

---------------------------------------------------------------------------
(* C4: after derivation Per_Diem_Rate, Km_Rate, Distance_km,               *)
(* Per_Diem_Total and Travel_Cost are numbers >= 0; stated here for the    *)
(* rows the pass derives (those with parsable Start and End).              *)
C4_NonNegative ==
    PassReturned =>
        \A i \in Rows :
            ValidDates(df[i]) =>
                \A col \in NumericColumns : df[i][col].num /\ df[i][col].v >= 0

---------------------------------------------------------------------------
(* C5: after derivation every row whose Work_Mode is not remote has       *)
(* Remote_Type = "n/a"; stated here for the rows the pass derives.         *)
C5_RemoteTypeForced ==
    PassReturned =>
        \A i \in Rows :
            (ValidDates(df[i]) /\ WorkMode(df[i]) # "remote") =>
                df[i].Remote_Type = "n/a"

---------------------------------------------------------------------------
(* C6: the pass never aborts, whatever the cells hold, and every row with *)
(* parsable dates of the batch is derived.                                 *)
C6_PassNeverAborts ==
    /\ stage # "raised"
    /\ (AfterPass /\ passes = 1) =>
          \A i \in Rows :
              ValidDates(input[i]) =>
                  df[i] = recalculate_row(coerce_row(input[i]), rates).row

---------------------------------------------------------------------------
(* C7: after the recalculate-and-sort path the rows are in ascending      *)
(* order of Start; of two rows with the same Start (a date text) a travel  *)
(* row never comes before a work or free row; rows equal on both keys      *)
(* keep their order.                                                       *)
IsWorkOrFree(row) == EventType(row) \in {"work", "free"}
IsTravel(row) == EventType(row) = "travel"
SameStart(r1, r2) == IsDate(r1.Start) /\ r1.Start = r2.Start

C7_SortOrder ==
    stage = "saved" =>
        \A p \in Rows : \A q \in Rows :
            p < q =>
                /\ ~key_less(start_key(df[q].Start), start_key(df[p].Start))
                /\ SameStart(df[p], df[q]) =>
                      ~(IsTravel(df[p]) /\ IsWorkOrFree(df[q]))
                /\ (SameStart(df[p], df[q])
                      /\ IsTravel(df[p]) = IsTravel(df[q])
                      /\ IsWorkOrFree(df[p]) = IsWorkOrFree(df[q])) =>
                      index[p] < index[q]

---------------------------------------------------------------------------
(* C8: build_initial_timeline on two bare dates from <= to gives one row  *)
(* per day of the range, in order, each a free placeholder from 00:00 to   *)
(* 23:59 of its day with a non-blank description; on to < from it gives    *)
(* no row; on an unparsable date it fails and gives no row.                *)
BareDate(c) == c.fmt = "date" /\ ~c.pad

C8_SeedingCoverage ==
    (origin = "script" /\ stage \in {"seeded", "failed"}) =>
        LET f == range.from_date
            t == range.to_date
        IN IF BareDate(f) /\ BareDate(t)
           THEN /\ stage = "seeded"
                /\ t.day < f.day => df = <<>>
                /\ f.day <= t.day =>
                     /\ Len(df) = (t.day - f.day) + 1
                     /\ \A k \in Rows :
                          /\ df[k].Start = DateTimeCell(f.day + (k - 1), 0)
                          /\ df[k].End = DateTimeCell(f.day + (k - 1), 23 * 60 + 59)
                          /\ df[k].Event_Type = "free"
                          /\ NonBlankText(df[k].Description)
           ELSE stage = "failed" /\ df = <<>>

(* a range of at least three days has been seeded *)
C8_Witness ==
    /\ origin = "script" /\ stage = "seeded"
    /\ range.to_date.day >= range.from_date.day + 2
    /\ Len(df) >= 3

---------------------------------------------------------------------------
(* C9 as claimed: a work row in remote mode with parsable dates gets      *)
(* Per_Diem_Rate by Remote_Type, Per_Diem_Total = days * Per_Diem_Rate     *)
(* with days = max(1, calendar days from Start to End + 1), and Km_Rate,   *)
(* Distance_km and Travel_Cost 0.                                          *)
IsRemoteWork(row) ==
    ValidDates(row) /\ EventType(row) = "work" /\ WorkMode(row) = "remote"

C9_RemotePerDiemExact ==
    AfterPass =>
        \A i \in Processed :
            IsRemoteWork(before[i]) =>
                /\ df[i].Per_Diem_Rate = Num(ExpectedRate(before[i]))
                /\ df[i].Per_Diem_Total =
                      Num(CalendarDays(before[i]) * df[i].Per_Diem_Rate.v)
                /\ df[i].Km_Rate = Num(0)
                /\ df[i].Distance_km = Num(0)
                /\ df[i].Travel_Cost = Num(0)

(* C9 amended: the same, with Per_Diem_Total = days * Per_Diem_Rate       *)
(* rounded to two decimals (ties to even).                                 *)
C9_RemotePerDiemRounded ==
    AfterPass =>
        \A i \in Processed :
            IsRemoteWork(before[i]) =>
                /\ df[i].Per_Diem_Rate = Num(ExpectedRate(before[i]))
                /\ df[i].Per_Diem_Total.num
                /\ RoundedToCents(df[i].Per_Diem_Total.v,
                                  CalendarDays(before[i]) * df[i].Per_Diem_Rate.v)
                /\ df[i].Km_Rate = Num(0)
                /\ df[i].Distance_km = Num(0)
                /\ df[i].Travel_Cost = Num(0)

(* a remote domestic work row whose End precedes its Start has been       *)
(* derived and has a per-diem total for one day                            *)
C9_Witness ==
    /\ AfterPass /\ passes = 1
    /\ \E i \in Processed :
        /\ IsRemoteWork(before[i])
        /\ RemoteType(before[i]) = "domestic"
        /\ before[i].End.day < before[i].Start.day
        /\ df[i].Per_Diem_Total.v > 0

---------------------------------------------------------------------------
(* C10: the recalculate-and-sort path leaves a freshly seeded timeline as *)
(* it is: same rows, same cells, same order, same row count.               *)
C10_SeedIsFixedPoint ==
    (origin = "script" /\ stage = "saved") =>
        /\ before = input
        /\ df = before
        /\ index = before_index

(* a seeded timeline of at least two days has gone through the path *)
C10_Witness ==
    origin = "script" /\ stage = "saved" /\ Len(df) >= 2

====
